---- MODULE Spec2Model ----
(***************************************************************************)
(* pytos.secureapp.xml_objects.base_types: the registry-driven auto-type   *)
(* deserialisation of network and service objects, the identity (equality  *)
(* and hash) contract of Base_Object, and the link objects.                *)
(*                                                                         *)
(* Python values are modelled as follows.  A str is a TLA+ string.  An     *)
(* optional value is a sequence: None is <<>> and a value v is <<v>>.  A   *)
(* dict (xml attrib, a class registry) is a function, key present iff in   *)
(* its DOMAIN.  An object is a record of its instance attributes plus      *)
(* `attrib`, the attributes set on its XML element.  A call yields a       *)
(* record with `ret` (the returned value) and `exc` (the raised exception).*)
(***************************************************************************)
EXTENDS Integers, Sequences, FiniteSets, TLC

VARIABLES
    registry,   \* class -> its `registry` dict (discriminator -> variant class)
    call        \* the last operation: its arguments, result and effects

vars == <<registry, call>>

\* ------------------------------------------------------------- bounds
\* Entity ids range over 1..MaxId.
MaxId == 2

\* ------------------------------------------------------ python values
None == <<>>
Some(v) == <<v>>

NoExc == [type |-> "None", msg |-> ""]
Raise(type, msg) == [type |-> type, msg |-> msg]
NoObject == [cls |-> "None"]

EmptyDict == [k \in {} |-> ""]

\* str.__contains__: d occurs in s as a substring.
Contains(s, d) ==
    \E i \in 1..(Len(s) - Len(d) + 1) : SubSeq(s, i, i + Len(d) - 1) = d

\* str.lower() on the letters that occur in the model's texts.
LowerChar(c) ==
    CASE c = "T" -> "t" [] c = "R" -> "r" [] c = "U" -> "u" [] c = "E" -> "e"
      [] c = "F" -> "f" [] c = "A" -> "a" [] c = "L" -> "l" [] c = "S" -> "s"
      [] OTHER -> c

RECURSIVE Lower(_)
Lower(s) ==
    IF Len(s) = 0 THEN ""
    ELSE LowerChar(SubSeq(s, 1, 1)) \o Lower(SubSeq(s, 2, Len(s)))

Digits == <<"0", "1", "2", "3", "4", "5", "6", "7", "8", "9">>

\* str(int) of a non-negative integer: its decimal digits.
RECURSIVE int_to_str(_)
int_to_str(n) ==
    IF n < 10 THEN Digits[n + 1]
    ELSE int_to_str(n \div 10) \o Digits[(n % 10) + 1]

\* str(v) of an optional integer.
py_str(v) == IF v = None THEN "None" ELSE int_to_str(v[1])

IsDigit(c) == \E i \in 1..10 : Digits[i] = c
DigitVal(c) == (CHOOSE i \in 1..10 : Digits[i] = c) - 1

IsInt(s) == Len(s) > 0 /\ \A i \in 1..Len(s) : IsDigit(SubSeq(s, i, i))

\* int(str) of a string of decimal digits.
RECURSIVE str_to_int(_)
str_to_int(s) ==
    IF Len(s) = 1 THEN DigitVal(s)
    ELSE 10 * str_to_int(SubSeq(s, 1, Len(s) - 1)) + DigitVal(SubSeq(s, Len(s), Len(s)))

\* ---------------------------------------------------------- xml_tags
XSI_NAMESPACE_URL == "http://www.w3.org/2001/XMLSchema-instance"
NAMESPACE_FIELD_ATTRIB_CONTENT == "xmlns:xsi"
XSI_TYPE == "xsi:type"
XSI_NAMESPACE_TYPE == "{" \o XSI_NAMESPACE_URL \o "}type"
HREF == "href"

\* ---------------------------------------------------- XML_Object_Base
\* set_attrib(name, value) / get_attrib(name) of the generic node wrapper.
set_attrib(self, name, value) ==
    [self EXCEPT !.attrib =
        [k \in (DOMAIN self.attrib) \cup {name} |->
            IF k = name THEN value ELSE self.attrib[k]]]

get_attrib(self, name) ==
    IF name \in DOMAIN self.attrib THEN Some(self.attrib[name]) ELSE None

\* get_xml_text_value / get_xml_int_value: the text of a child element, or None.
get_xml_text_value(xml_node, tag) ==
    IF tag \in DOMAIN xml_node.children
    THEN [ret |-> Some(xml_node.children[tag]), exc |-> NoExc]
    ELSE [ret |-> None, exc |-> NoExc]

get_xml_int_value(xml_node, tag) ==
    IF tag \notin DOMAIN xml_node.children THEN [ret |-> None, exc |-> NoExc]
    ELSE IF IsInt(xml_node.children[tag])
    THEN [ret |-> Some(str_to_int(xml_node.children[tag])), exc |-> NoExc]
    ELSE [ret |-> None,
          exc |-> Raise("ValueError", "invalid literal for int() with base 10: "
                                      \o xml_node.children[tag])]

\* str_to_bool: case-insensitive "true"/"false".
str_to_bool(s) == Lower(s) = "true"

\* -------------------------------------------------------- Base_Object
\* Base_Object.__init__: the identity fields, then the namespace declaration.
Base_Object_init(cls, xml_tag, display_name, is_global_, object_id, name, object_type, application_id) ==
    set_attrib([cls |-> cls, xml_tag |-> xml_tag,
                id |-> object_id, name |-> name, type |-> object_type,
                display_name |-> display_name, global_ |-> is_global_,
                application_id |-> application_id,
                uid |-> None, link |-> None, attrib |-> EmptyDict],
               NAMESPACE_FIELD_ATTRIB_CONTENT, XSI_NAMESPACE_URL)

\* Base_Object.is_global
is_global(self) == str_to_bool(self.global_[1])

\* _key with the application id left out of the tuple.
_key_without_application_id(self) ==
    <<self.id, self.name, self.type, self.display_name, self.global_>>

\* Base_Object._key
_key(self) ==
    <<self.id, self.name, self.type, self.display_name, self.global_, self.application_id>>

\* Comparable.__eq__ of XML_Object_Base: equality of the _key() tuples.
Eq(a, b) == _key(a) = _key(b)

\* hash(int) of an int whose magnitude is below the hash modulus 2^61 - 1.
hash_int(n) == IF n = -1 THEN -2 ELSE n

CharCode(c) == IF IsDigit(c) THEN DigitVal(c) + 1 ELSE 11

\* hash(str): a function of the string and of the per-process hash seed.
RECURSIVE hash_str(_, _)
hash_str(seed, s) ==
    IF Len(s) = 0 THEN seed
    ELSE (31 * hash_str(seed, SubSeq(s, 1, Len(s) - 1))
          + CharCode(SubSeq(s, Len(s), Len(s)))) % 1009

\* Base_Object.__hash__: hash(self.id)
Base_Object_hash(seed, self) == hash_int(self.id[1])

\* __hash__ over the id and the name instead of the id alone.
Network_Object_hash_of_id_and_name(seed, self) ==
    hash_str(seed, py_str(self.id) \o self.name[1])

\* Network_Object.__hash__: hash(str(self.id))
Network_Object_hash(seed, self) == hash_str(seed, py_str(self.id))

\* Service_Object.__hash__: hash(str(self.id))
Service_Object_hash(seed, self) == hash_str(seed, py_str(self.id))

\* Base_Service.__init__: uid, then Base_Object.__init__ with the service tag.
Base_Service_init(cls, display_name, is_global_, service_id, name, service_type, uid, application_id) ==
    [Base_Object_init(cls, "service", display_name, is_global_, service_id, name,
                      service_type, application_id) EXCEPT !.uid = uid]

\* ----------------------------------------------------------- URL_Link
\* __init__ that never sets the href attribute.
URL_Link_init_without_href(url) ==
    set_attrib([cls |-> "URL_Link", xml_tag |-> "link", attrib |-> EmptyDict], NAMESPACE_FIELD_ATTRIB_CONTENT, XSI_NAMESPACE_URL)

\* URL_Link.__init__
URL_Link_init(url) ==
    set_attrib(set_attrib([cls |-> "URL_Link", xml_tag |-> "link", attrib |-> EmptyDict],
                          NAMESPACE_FIELD_ATTRIB_CONTENT, XSI_NAMESPACE_URL),
               HREF, url)

\* URL_Link.from_xml_node: url = xml_node.attrib[HREF]
URL_Link_from_xml_node(xml_node) ==
    IF HREF \in DOMAIN xml_node.attrib
    THEN [ret |-> URL_Link_init(xml_node.attrib[HREF]), exc |-> NoExc]
    ELSE [ret |-> NoObject, exc |-> Raise("KeyError", HREF)]

\* Base_Link_Target.__init__
Base_Link_Target_init(xml_tag, connection_id, display_name, name, link) ==
    [cls |-> "Base_Link_Target", xml_tag |-> xml_tag, id |-> connection_id,
     display_name |-> display_name, name |-> name, link |-> link,
     attrib |-> EmptyDict]

\* Base_Link_Target.get_reference_link
get_reference_link(self) == get_attrib(self.link, HREF)

\* ----------------------------------------------- Network/Service objects
\* __init__ that writes object_type, not attr_type, as the xsi:type attribute.
Network_Object_init_object_type(cls, xml_tag, display_name, is_global_, object_id, name, object_type, attr_type, application_id) ==
    set_attrib(Base_Object_init(cls, xml_tag, display_name, is_global_, object_id, name, object_type, application_id), XSI_TYPE, object_type[1])

\* Network_Object.__init__: Base_Object.__init__, then the xsi:type attribute.
Network_Object_init(cls, xml_tag, display_name, is_global_, object_id, name, object_type, attr_type, application_id) ==
    set_attrib(Base_Object_init(cls, xml_tag, display_name, is_global_, object_id, name,
                                object_type, application_id),
               XSI_TYPE, attr_type)

\* Service_Object.__init__: Base_Object.__init__, then the xsi:type attribute.
Service_Object_init(cls, xml_tag, display_name, is_global_, object_id, name, object_type, attr_type, application_id) ==
    set_attrib(Base_Object_init(cls, xml_tag, display_name, is_global_, object_id, name,
                                object_type, application_id),
               XSI_TYPE, attr_type)

\* ------------------------------------------------- the variant classes
\* The concrete subclasses, each with the base class whose registry it joins
\* and its class_identifier (the discriminator it registers under).
NetworkVariants == {"Host_Network_Object", "Host_Network_Object_With_Interfaces", "Group_Network_Object"}
ServiceVariants == {"Single_Service", "Group_Service"}
Variants == NetworkVariants \cup ServiceVariants
Families == {"Network_Object", "Service_Object"}

Base(cls) ==
    IF cls \in NetworkVariants \cup {"Network_Object"} THEN "Network_Object"
    ELSE "Service_Object"

class_identifier(cls) ==
    CASE cls = "Host_Network_Object" -> "host_object"
      [] cls = "Host_Network_Object_With_Interfaces" -> "host_object"
      [] cls = "Group_Network_Object" -> "group"
      [] cls = "Single_Service" -> "single_service"
      [] cls = "Group_Service" -> "group"

\* Registration by plain dict assignment: a later class replaces an earlier one.
register_overwriting(reg, cls) ==
    [registry |-> [reg EXCEPT ![Base(cls)] = [k \in (DOMAIN @) \cup {class_identifier(cls)} |-> IF k = class_identifier(cls) THEN cls ELSE @[k]]],
     exc |-> NoExc]

\* SubclassWithIdentifierRegistry: defining a subclass registers it under its
\* class_identifier in its base class's registry; a discriminator already
\* present is a DuplicateRegistration error and leaves the registry as it is.
register(reg, cls) ==
    LET family == Base(cls)
        d == class_identifier(cls)
    IN  IF d \in DOMAIN reg[family]
        THEN [registry |-> reg, exc |-> Raise("DuplicateRegistration", d)]
        ELSE [registry |-> [reg EXCEPT ![family] = [k \in (DOMAIN @) \cup {d} |-> IF k = d THEN cls ELSE @[k]]],
              exc |-> NoExc]

\* A variant's from_xml_node: the identity fields, the variant's own fields
\* (a group's link child, through URL_Link.from_xml_node), then the variant's
\* constructor, which passes its class_identifier as attr_type.
Variant_from_xml_node(cls, xml_node) ==
    LET object_id == get_xml_int_value(xml_node, "id")
        application_id == get_xml_int_value(xml_node, "applicationId")
        link == IF cls \in {"Group_Network_Object", "Group_Service"} /\ xml_node.link # None
                THEN URL_Link_from_xml_node(xml_node.link[1])
                ELSE [ret |-> NoObject, exc |-> NoExc]
        display_name == get_xml_text_value(xml_node, "displayName").ret
        is_global_ == get_xml_text_value(xml_node, "global").ret
        name == get_xml_text_value(xml_node, "name").ret
        object_type == get_xml_text_value(xml_node, "type").ret
        uid == get_xml_text_value(xml_node, "uid").ret
        obj == IF Base(cls) = "Network_Object"
               THEN Network_Object_init(cls, "network_object", display_name, is_global_, object_id.ret, name, object_type, class_identifier(cls), application_id.ret)
               ELSE [Service_Object_init(cls, "service", display_name, is_global_, object_id.ret, name, object_type, class_identifier(cls), application_id.ret) EXCEPT !.uid = uid]
    IN  IF object_id.exc # NoExc THEN [ret |-> NoObject, exc |-> object_id.exc]
        ELSE IF application_id.exc # NoExc THEN [ret |-> NoObject, exc |-> application_id.exc]
        ELSE IF link.exc # NoExc THEN [ret |-> NoObject, exc |-> link.exc]
        ELSE [ret |-> [obj EXCEPT !.link = IF link.ret = NoObject THEN None ELSE Some(link.ret)],
              exc |-> NoExc]

\* ------------------------------------------------------- auto-type parsing
\* What a call leaves behind: the value returned or the exception raised, the
\* registry keys it looked up, the variant parsers it called, and the node and
\* the registries as they are after the call.
Outcome(ret, exc, lookups, parsed, xml_node, reg) ==
    [ret |-> ret, exc |-> exc, lookups |-> lookups, parsed |-> parsed, xml_node |-> xml_node, registry |-> reg]

\* attrib.get(XSI_NAMESPACE_TYPE, default) in place of attrib[XSI_NAMESPACE_TYPE].
read_type_attribute_with_default(xml_node) ==
    IF XSI_NAMESPACE_TYPE \in DOMAIN xml_node.attrib
    THEN [ret |-> xml_node.attrib[XSI_NAMESPACE_TYPE], exc |-> NoExc]
    ELSE [ret |-> "host_object", exc |-> NoExc]

\* The first try block of from_xml_node_auto_type (the same in both classes):
\* xml_node.attrib[XSI_NAMESPACE_TYPE], a KeyError turned into a ValueError.
read_type_attribute(xml_node) ==
    IF XSI_NAMESPACE_TYPE \in DOMAIN xml_node.attrib
    THEN [ret |-> xml_node.attrib[XSI_NAMESPACE_TYPE], exc |-> NoExc]
    ELSE [ret |-> "", exc |-> Raise("ValueError", "XML Node is missing type attribute")]

\* The message without its .format(...) call.
unknown_type_error_unformatted(object_type) ==
    Raise("ValueError", "Unknown network object type {}")

\* The except clause of the second try block (the same text in both classes).
unknown_type_error(object_type) ==
    Raise("ValueError", "Unknown network object type " \o object_type)

\* Network_Object.from_xml_node_auto_type.  The second try block covers the
\* registry lookup and the variant's from_xml_node alike, so a KeyError raised
\* by either is caught by its except clause.
Network_Object_from_xml_node_auto_type(cls, xml_node, reg) ==
    LET network_object_type == read_type_attribute(xml_node)
        lookups == <<network_object_type.ret>>
    IN  IF network_object_type.exc # NoExc
        THEN Outcome(NoObject, network_object_type.exc, <<>>, <<>>, xml_node, reg)
        ELSE IF network_object_type.ret \notin DOMAIN reg[Base(cls)]
        THEN Outcome(NoObject, unknown_type_error(network_object_type.ret), lookups, <<>>, xml_node, reg)
        ELSE LET variant == reg[Base(cls)][network_object_type.ret]
                 r == Variant_from_xml_node(variant, xml_node)
             IN  IF r.exc.type = "KeyError"
                 THEN Outcome(NoObject, unknown_type_error(network_object_type.ret), lookups, <<variant>>, xml_node, reg)
                 ELSE Outcome(r.ret, r.exc, lookups, <<variant>>, xml_node, reg)

\* The service class dispatching through the network class, as its
\* from_xml_string_auto_type does.
Service_Object_auto_type_via_Network_Object(cls, xml_node, reg) ==
    Network_Object_from_xml_node_auto_type("Network_Object", xml_node, reg)

\* Service_Object.from_xml_node_auto_type, with the same two try blocks.
Service_Object_from_xml_node_auto_type(cls, xml_node, reg) ==
    LET service_type == read_type_attribute(xml_node)
        lookups == <<service_type.ret>>
    IN  IF service_type.exc # NoExc
        THEN Outcome(NoObject, service_type.exc, <<>>, <<>>, xml_node, reg)
        ELSE IF service_type.ret \notin DOMAIN reg[Base(cls)]
        THEN Outcome(NoObject, unknown_type_error(service_type.ret), lookups, <<>>, xml_node, reg)
        ELSE LET variant == reg[Base(cls)][service_type.ret]
                 r == Variant_from_xml_node(variant, xml_node)
             IN  IF r.exc.type = "KeyError"
                 THEN Outcome(NoObject, unknown_type_error(service_type.ret), lookups, <<variant>>, xml_node, reg)
                 ELSE Outcome(r.ret, r.exc, lookups, <<variant>>, xml_node, reg)

\* ----------------------------------------------------------- XML text
\* An XML text is the sequence of its tokens: the start tag, its attributes,
\* the child elements (a `link` child carries its one attribute), the end tag.
Tok(k, name, value) == [k |-> k, name |-> name, value |-> value]

HasPrefix(name) == \E i \in 1..Len(name) : SubSeq(name, i, i) = ":"
FirstColon(name) ==
    CHOOSE i \in 1..Len(name) :
        SubSeq(name, i, i) = ":" /\ \A j \in 1..(i - 1) : SubSeq(name, j, j) # ":"
PrefixOf(name) == SubSeq(name, 1, FirstColon(name) - 1)
LocalOf(name) == SubSeq(name, FirstColon(name) + 1, Len(name))

\* ET.fromstring: the parsed root element, or a ParseError for a text that is
\* not well formed or uses an undeclared namespace prefix.  Namespace
\* declarations are consumed; a prefixed attribute name becomes {uri}local.
fromstring(xml_string) ==
    LET n == Len(xml_string)
        inner == 2..(n - 1)
        attrs == {i \in inner : xml_string[i].k = "attr"}
        IsDecl(i) == HasPrefix(xml_string[i].name) /\ PrefixOf(xml_string[i].name) = "xmlns"
        Decls(prefix) == {i \in attrs : IsDecl(i) /\ LocalOf(xml_string[i].name) = prefix}
        plain == {i \in attrs : ~IsDecl(i)}
        wellformed ==
            /\ n >= 2
            /\ xml_string[1].k = "open"
            /\ xml_string[n].k = "close"
            /\ xml_string[n].name = xml_string[1].name
            /\ \A i \in inner : xml_string[i].k \in {"attr", "child", "link"}
            /\ \A i \in attrs : \A j \in inner \ attrs : i < j
        bound == \A i \in plain :
                    HasPrefix(xml_string[i].name) => Decls(PrefixOf(xml_string[i].name)) # {}
        Uri(prefix) == xml_string[CHOOSE i \in Decls(prefix) : TRUE].value
        QName(i) ==
            IF HasPrefix(xml_string[i].name)
            THEN "{" \o Uri(PrefixOf(xml_string[i].name)) \o "}" \o LocalOf(xml_string[i].name)
            ELSE xml_string[i].name
        kids == {i \in inner : xml_string[i].k = "child"}
        links == {i \in inner : xml_string[i].k = "link"}
        FirstKid(t) == CHOOSE i \in kids : /\ xml_string[i].name = t
                                            /\ \A j \in kids : xml_string[j].name = t => i <= j
        linktok == xml_string[CHOOSE i \in links : \A j \in links : i <= j]
    IN  IF ~wellformed THEN [ret |-> NoObject, exc |-> Raise("ParseError", "not well-formed")]
        ELSE IF ~bound THEN [ret |-> NoObject, exc |-> Raise("ParseError", "unbound prefix")]
        ELSE [ret |-> [tag |-> xml_string[1].name,
                       attrib |-> [q \in {QName(i) : i \in plain} |->
                                      xml_string[CHOOSE i \in plain : QName(i) = q].value],
                       children |-> [t \in {xml_string[i].name : i \in kids} |->
                                      xml_string[FirstKid(t)].value],
                       link |-> IF links = {} THEN None
                                ELSE Some([tag |-> "link",
                                           attrib |-> IF linktok.name = "" THEN EmptyDict
                                                      ELSE [a \in {linktok.name} |-> linktok.value],
                                           children |-> EmptyDict,
                                           link |-> None])],
              exc |-> NoExc]

\* Network_Object.from_xml_string_auto_type (the text is parsed once, and the
\* parsed node handed on).
Network_Object_from_xml_string_auto_type(xml_string, reg) ==
    LET Parsed(xml_node) ==
            IF xml_node.exc # NoExc
            THEN Outcome(NoObject, xml_node.exc, <<>>, <<>>, xml_node.ret, reg)
            ELSE Network_Object_from_xml_node_auto_type("Network_Object", xml_node.ret, reg)
    IN  CHOOSE r \in {Parsed(xml_node) : xml_node \in {fromstring(xml_string)}} : TRUE

\* Service_Object.from_xml_string_auto_type
Service_Object_from_xml_string_auto_type(xml_string, reg) ==
    LET Parsed(xml_node) ==
            IF xml_node.exc # NoExc
            THEN Outcome(NoObject, xml_node.exc, <<>>, <<>>, xml_node.ret, reg)
            ELSE Network_Object_from_xml_node_auto_type("Network_Object", xml_node.ret, reg)
    IN  CHOOSE r \in {Parsed(xml_node) : xml_node \in {fromstring(xml_string)}} : TRUE

\* ------------------------------------------------------------- inputs
Discriminators == {"host_object", "group", "single_service", "range_object"}
IdTexts == {"12", "x"}
GlobalTexts == {"True"}
Urls == {"https://api/objects/5", "/objects/7"}

LinkNode(href) ==
    [tag |-> "link",
     attrib |-> IF href = None THEN EmptyDict ELSE [a \in {HREF} |-> href[1]],
     children |-> EmptyDict,
     link |-> None]

LinkNodes == {LinkNode(h) : h \in {None} \cup {Some(u) : u \in Urls}}

XmlNode(type_attr, id_text, global_text, link) ==
    [tag |-> "object",
     attrib |-> IF type_attr = None THEN EmptyDict
                ELSE [a \in {XSI_NAMESPACE_TYPE} |-> type_attr[1]],
     children |-> [t \in {"displayName", "global", "id", "name", "type", "uid"} |->
                     CASE t = "displayName" -> "srv1"
                       [] t = "global" -> global_text
                       [] t = "id" -> id_text
                       [] t = "name" -> "srv1"
                       [] t = "type" -> "host"
                       [] t = "uid" -> "u-" \o id_text],
     link |-> link]

Nodes ==
    {XmlNode(t, i, g, l) :
        t \in {None} \cup {Some(d) : d \in Discriminators},
        i \in IdTexts,
        g \in GlobalTexts,
        l \in {None, Some(LinkNode(None)), Some(LinkNode(Some("https://api/objects/5")))}}

ChildTags == <<"displayName", "global", "id", "name", "type", "uid", "applicationId">>

\* The text of a node, as the API sends it.
ToText(node) ==
    LET Present(t) == t \in DOMAIN node.children
        tags == SelectSeq(ChildTags, Present)
        typed == XSI_NAMESPACE_TYPE \in DOMAIN node.attrib
    IN  <<Tok("open", node.tag, "")>>
        \o (IF typed
            THEN <<Tok("attr", NAMESPACE_FIELD_ATTRIB_CONTENT, XSI_NAMESPACE_URL),
                   Tok("attr", XSI_TYPE, node.attrib[XSI_NAMESPACE_TYPE])>>
            ELSE <<>>)
        \o [i \in 1..Len(tags) |-> Tok("child", tags[i], node.children[tags[i]])]
        \o (IF node.link = None THEN <<>>
            ELSE IF HREF \in DOMAIN node.link[1].attrib
            THEN <<Tok("link", HREF, node.link[1].attrib[HREF])>>
            ELSE <<Tok("link", "", "")>>)
        \o <<Tok("close", node.tag, "")>>

\* Texts that are not well formed: an element left open, an undeclared prefix.
Malformed ==
    {<<Tok("open", "object", ""), Tok("child", "id", "12")>>,
     <<Tok("open", "object", ""), Tok("attr", XSI_TYPE, "host_object"), Tok("close", "object", "")>>}

Texts == {ToText(n) : n \in Nodes} \cup Malformed

EntityClasses == {"Base_Service", "Host_Network_Object", "Single_Service"}

\* hash(str) is salted per process (PYTHONHASHSEED): the seeds a process may run under.
HashSeeds == {0, 7}

Names == {Some("srv1"), Some("srv2")}
Types == {Some("host"), Some("subnet")}
Globals == {Some("true"), Some("True"), Some("false")}
ApplicationIds == {None, Some(7)}
Ids == {Some(i) : i \in 1..MaxId}

\* The entities of a class, built by its constructor.
Entities(cls) ==
    {CASE cls = "Base_Service" -> Base_Service_init(cls, dn, g, id, n, t, uid, app)
       [] cls = "Host_Network_Object" -> Network_Object_init(cls, "network_object", dn, g, id, n, t, class_identifier(cls), app)
       [] cls = "Single_Service" -> Service_Object_init(cls, "service", dn, g, id, n, t, class_identifier(cls), app) :
        dn \in Names, g \in Globals, id \in Ids, n \in Names, t \in Types, app \in ApplicationIds,
        uid \in IF cls = "Base_Service" THEN {Some("u1"), Some("u2")} ELSE {None}}

\* hash(self): the __hash__ the class of self resolves to.
Hash(seed, self) ==
    CASE self.cls \in NetworkVariants -> Network_Object_hash(seed, self)
      [] self.cls \in ServiceVariants -> Service_Object_hash(seed, self)
      [] OTHER -> Base_Object_hash(seed, self)

\* ------------------------------------------------------------ actions
Init ==
    /\ registry = [f \in Families |-> EmptyDict]
    /\ call = [op |-> "init"]

\* A variant class is defined: the metaclass registers it.
Register ==
    \E cls \in Variants :
        \E r \in {register(registry, cls)} :
            /\ registry' = r.registry
            /\ call' = [op |-> "register", cls |-> cls, pre |-> registry, exc |-> r.exc]

\* cls.from_xml_node_auto_type(xml_node), cls one of the two base classes.
FromXmlNodeAutoType ==
    \E cls \in Families, xml_node \in Nodes :
        \E r \in {IF cls = "Network_Object"
                 THEN Network_Object_from_xml_node_auto_type(cls, xml_node, registry)
                 ELSE Service_Object_from_xml_node_auto_type(cls, xml_node, registry)} :
            /\ registry' = r.registry
            /\ call' = [op |-> "from_xml_node_auto_type", cls |-> cls, arg |-> xml_node,
                        pre |-> registry, ret |-> r.ret, exc |-> r.exc,
                        lookups |-> r.lookups, parsed |-> r.parsed, xml_node |-> r.xml_node]

\* cls.from_xml_string_auto_type(xml_string), cls one of the two base classes.
FromXmlStringAutoType ==
    \E cls \in Families, xml_string \in Texts :
        \E r \in {IF cls = "Network_Object"
                 THEN Network_Object_from_xml_string_auto_type(xml_string, registry)
                 ELSE Service_Object_from_xml_string_auto_type(xml_string, registry)} :
            /\ registry' = r.registry
            /\ call' = [op |-> "from_xml_string_auto_type", cls |-> cls, arg |-> xml_string,
                        pre |-> registry, ret |-> r.ret, exc |-> r.exc,
                        lookups |-> r.lookups, parsed |-> r.parsed, xml_node |-> r.xml_node]

\* URL_Link(url), embedded in a link target whose reference link is then read.
LinkFromUrl ==
    \E url \in Urls, id \in Ids, n \in Names :
        LET link == URL_Link_init(url)
            target == Base_Link_Target_init("target", id, n, n, link)
        IN  /\ call' = [op |-> "link", via |-> "url", url |-> Some(url), exc |-> NoExc,
                        link |-> link, target |-> target, ref |-> get_reference_link(target)]
            /\ UNCHANGED registry

\* URL_Link.from_xml_node(xml_node), embedded likewise when it returns a link.
LinkFromXmlNode ==
    \E xml_node \in LinkNodes, id \in Ids, n \in Names :
        LET r == URL_Link_from_xml_node(xml_node)
            target == Base_Link_Target_init("target", id, n, n, r.ret)
        IN  /\ call' = [op |-> "link", via |-> "node", url |-> get_attrib(xml_node, HREF),
                        exc |-> r.exc, link |-> r.ret,
                        target |-> IF r.exc = NoExc THEN target ELSE NoObject,
                        ref |-> IF r.exc = NoExc THEN get_reference_link(target) ELSE None]
            /\ UNCHANGED registry

\* a == b, hash(a) and hash(b) of two entities of one class, in one process.
Compare ==
    /\ call.op = "entities"
    /\ call' = [op |-> "compare", cls |-> call.cls, a |-> call.a, b |-> call.b, seed |-> call.seed,
                eq |-> Eq(call.a, call.b),
                hash_a |-> Hash(call.seed, call.a), hash_b |-> Hash(call.seed, call.b)]
    /\ UNCHANGED registry

Next ==
    \/ Register
    \/ FromXmlNodeAutoType
    \/ FromXmlStringAutoType
    \/ LinkFromUrl
    \/ LinkFromXmlNode

Spec == Init /\ [][Next]_vars

\* Two entities of one class, built in a process with some hash seed.
InitEntity ==
    /\ registry = [f \in Families |-> EmptyDict]
    /\ \E cls \in EntityClasses, seed \in HashSeeds :
          \E a \in Entities(cls), b \in Entities(cls) :
            call = [op |-> "entities", cls |-> cls, a |-> a, b |-> b, seed |-> seed]

NextEntity == Compare

SpecEntity == InitEntity /\ [][NextEntity]_vars

\* ------------------------------------------------------------- claims
NodeCall == call.op = "from_xml_node_auto_type"
StringCall == call.op = "from_xml_string_auto_type"
Typed(xml_node) == XSI_NAMESPACE_TYPE \in DOMAIN xml_node.attrib
TypeOf(xml_node) == xml_node.attrib[XSI_NAMESPACE_TYPE]
\* The node call's discriminator is a key of the registry of the class called.
Registered == NodeCall /\ Typed(call.arg) /\ TypeOf(call.arg) \in DOMAIN call.pre[call.cls]
RegisteredVariant == call.pre[call.cls][TypeOf(call.arg)]

\* C1: a node call whose discriminator d is registered in the called class's
\* own registry calls the from_xml_node of the variant registered under d there
\* and of no other; an object that parser returns is what the call returns, and
\* the call returns no other object.
C1_DispatchCorrectness ==
    Registered =>
        LET p == Variant_from_xml_node(RegisteredVariant, call.arg)
        IN  /\ call.parsed = <<RegisteredVariant>>
            /\ p.exc = NoExc => call.exc = NoExc /\ call.ret = p.ret /\ call.ret.cls = RegisteredVariant
            /\ call.ret # NoObject => call.ret = p.ret

C1_Witness ==
    /\ Registered
    /\ call.cls = "Service_Object"
    /\ TypeOf(call.arg) = "group"
    /\ "group" \in DOMAIN call.pre["Network_Object"]
    /\ call.ret # NoObject
    /\ call.ret.cls = "Group_Service"

\* C2: Service_Object.from_xml_string_auto_type(t), for a well-formed text t,
\* has the outcome of Service_Object.from_xml_node_auto_type on the parsed node
\* of t: it dispatches through the service registry.
C2_ServiceStringDispatch ==
    (StringCall /\ call.cls = "Service_Object" /\ fromstring(call.arg).exc = NoExc) =>
        LET r == Service_Object_from_xml_node_auto_type("Service_Object", fromstring(call.arg).ret, call.pre)
        IN  call.ret = r.ret /\ call.exc = r.exc

\* C3: a node call whose type attribute holds a string d that is no key of the
\* called class's registry returns no object and raises an error whose message
\* contains d.
C3_UnknownType ==
    (NodeCall /\ Typed(call.arg) /\ TypeOf(call.arg) \notin DOMAIN call.pre[call.cls]) =>
        /\ call.ret = NoObject
        /\ call.exc.type = "ValueError"
        /\ Contains(call.exc.msg, TypeOf(call.arg))
        /\ call.parsed = <<>>

C3_Witness ==
    /\ NodeCall
    /\ Typed(call.arg)
    /\ TypeOf(call.arg) = "single_service"
    /\ call.cls = "Network_Object"
    /\ "single_service" \in DOMAIN call.pre["Service_Object"]
    /\ call.exc.msg = "Unknown network object type single_service"

\* C4: a node call on a node without the type attribute raises the
\* missing-type-attribute error, having looked nothing up in a registry and
\* called no variant parser, and returns no object, whatever is registered.
C4_MissingTypeAttribute ==
    (NodeCall /\ ~Typed(call.arg)) =>
        /\ call.ret = NoObject
        /\ call.exc = Raise("ValueError", "XML Node is missing type attribute")
        /\ call.lookups = <<>>
        /\ call.parsed = <<>>

C4_Witness ==
    /\ NodeCall
    /\ ~Typed(call.arg)
    /\ call.exc.type = "ValueError"
    /\ DOMAIN call.pre["Network_Object"] = {"host_object", "group"}
    /\ DOMAIN call.pre["Service_Object"] = {"single_service", "group"}

SameFive(a, b) ==
    /\ a.id = b.id
    /\ a.name = b.name
    /\ a.type = b.type
    /\ a.display_name = b.display_name
    /\ a.application_id = b.application_id

\* C5 as amended: two entities of a class compare equal iff id, name, type,
\* display name and application id are equal and the global flags are equal as
\* the strings stored, not as the booleans is_global() decodes them to; uid
\* plays no part, and entities that differ in id alone are unequal.
C5_EqualityOfStoredFields ==
    call.op = "compare" =>
        /\ call.eq <=> (SameFive(call.a, call.b) /\ call.a.global_ = call.b.global_)
        /\ call.eq => is_global(call.a) = is_global(call.b)

C5_Witness ==
    /\ call.op = "compare"
    /\ SameFive(call.a, call.b)
    /\ call.a.global_ = Some("true")
    /\ call.b.global_ = Some("True")
    /\ is_global(call.a) = is_global(call.b)
    /\ ~call.eq

\* C5: two entities compare equal iff id, name, type, display name, the
\* boolean is_global() and application id are all equal.
C5_EqualityOfDecodedFields ==
    call.op = "compare" =>
        (call.eq <=> (SameFive(call.a, call.b) /\ is_global(call.a) = is_global(call.b)))

\* C6: the hash of an entity is a function of its id alone (of the id for a
\* base entity, of the id's string form for a network or service object): two
\* entities of a class with the same id have the same hash, equal or not, and
\* so two that compare equal have the same hash.
C6_HashOfIdAlone ==
    call.op = "compare" =>
        /\ call.a.id = call.b.id => call.hash_a = call.hash_b
        /\ call.eq => call.hash_a = call.hash_b
        /\ call.hash_a = (IF call.cls = "Base_Service" THEN hash_int(call.a.id[1])
                          ELSE hash_str(call.seed, int_to_str(call.a.id[1])))

C6_Witness ==
    /\ call.op = "compare"
    /\ call.cls = "Host_Network_Object"
    /\ call.a.id = call.b.id
    /\ call.a.name # call.b.name
    /\ ~call.eq
    /\ call.hash_a = call.hash_b

\* C7: a node call, returning or raising, leaves the input node and both
\* registries as they were; an object it returns carries as its xsi:type
\* attribute the discriminator read from the input node.
C7_PureAndDiscriminatorPreserving ==
    NodeCall =>
        /\ call.xml_node = call.arg
        /\ registry = call.pre
        /\ call.ret # NoObject =>
            /\ XSI_TYPE \in DOMAIN call.ret.attrib
            /\ call.ret.attrib[XSI_TYPE] = TypeOf(call.arg)

C7_Witness ==
    /\ NodeCall
    /\ call.cls = "Network_Object"
    /\ call.ret # NoObject
    /\ call.ret.cls = "Host_Network_Object_With_Interfaces"
    /\ call.ret.attrib[XSI_TYPE] = "host_object"

\* C8: in every step the entries of both registries stay as they are (none
\* removed, none replaced); a registration under a discriminator already in
\* the class's registry raises and changes nothing; and a registration leaves
\* the other class's registry as it was.
C8_RegistryIntegrity ==
    [][/\ \A f \in Families : \A d \in DOMAIN registry[f] :
            d \in DOMAIN registry'[f] /\ registry'[f][d] = registry[f][d]
       /\ call'.op = "register" =>
            /\ \A f \in Families \ {Base(call'.cls)} : registry'[f] = registry[f]
            /\ class_identifier(call'.cls) \in DOMAIN registry[Base(call'.cls)] =>
                /\ call'.exc.type = "DuplicateRegistration"
                /\ registry' = registry]_vars

C8_Witness ==
    /\ call.op = "register"
    /\ call.cls = "Host_Network_Object_With_Interfaces"
    /\ call.exc.type = "DuplicateRegistration"
    /\ registry["Network_Object"]["host_object"] = "Host_Network_Object"
    /\ registry["Service_Object"] # EmptyDict

\* C9: a URL_Link built from a url u, directly or from a node whose href is u,
\* carries href = u, and the link target that embeds it returns u as its
\* reference link; from a node without href no link is built and a KeyError
\* is raised.
C9_LinkRoundTrip ==
    call.op = "link" =>
        /\ call.url # None =>
            /\ call.exc = NoExc
            /\ get_attrib(call.link, HREF) = call.url
            /\ call.target.link = call.link
            /\ call.ref = call.url
        /\ call.url = None =>
            /\ call.exc.type = "KeyError"
            /\ call.link = NoObject

C9_Witness ==
    /\ call.op = "link"
    /\ call.via = "node"
    /\ call.ref = Some("/objects/7")

\* C10: a node call whose discriminator is registered never raises the
\* unknown-type error: a failure of the variant's from_xml_node is raised
\* unchanged.
C10_UnknownOnlyWhenUnregistered ==
    Registered =>
        LET p == Variant_from_xml_node(RegisteredVariant, call.arg)
        IN  /\ call.exc # unknown_type_error(TypeOf(call.arg))
            /\ p.exc # NoExc => call.exc = p.exc

====
